---- MODULE Spec2Model ----
(***************************************************************************)
(* The two example scripts of zarrs_icechunk:                              *)
(*   examples/generate_netcdf.py     (the Generator)                       *)
(*   examples/virtualizarr_netcdf.py (the Combiner)                        *)
(* Each script is a straight-line program; one action per statement.  The  *)
(* state shared between invocations is the filesystem: the two NetCDF      *)
(* files and the path of the icechunk repository.                          *)
(***************************************************************************)
EXTENDS Integers, Sequences, FiniteSets, TLC

VARIABLES
    files,      \* content of examples/data/test0.nc and test1.nc
    store,      \* content of examples/data/test.icechunk.zarr
    pcG,        \* Generator: next statement
    da,         \* Generator: the DataArray `da`
    pcC,        \* Combiner: next statement
    vds,        \* Combiner: the list `vds`
    combined,   \* Combiner: `combined_vds`
    session,    \* Combiner: `session`
    err,        \* Combiner: the uncaught exception that ended the run
    other,      \* a second writer's session on the repository
    atStart     \* history: what lay at the repository path when the Combiner run began

vars == <<files, store, pcG, da, pcC, vds, combined, session, err, other, atStart>>

None == [kind |-> "none"]

(***************************************************************************)
(* Program constants of generate_netcdf.py                                 *)
(***************************************************************************)
shape == <<2, 5, 10>>
dims == <<"z", "y", "x">>
Offset == 100
\* scale_factor 0.1 is kept as the exact fraction 1 / ScaleDen
ScaleDen == 10
AddOffset == 3
encoding ==
    [shuffle |-> TRUE, zlib |-> TRUE, chunksizes |-> <<1, 2, 2>>,
     scale_den |-> ScaleDen, add_offset |-> AddOffset]

Path0 == "examples/data/test0.nc"
Path1 == "examples/data/test1.nc"

(***************************************************************************)
(* Arrays: a function from 0-based index triples to values.                *)
(***************************************************************************)
IndexSet(s) ==
    {<<i, j, k>> : i \in 0..(s[1] - 1), j \in 0..(s[2] - 1), k \in 0..(s[3] - 1)}

Prod(s) == s[1] * s[2] * s[3]

\* np.arange(n, dtype=np.uint32); n is 100 here, far below the wrap at 2^32
Arange(n) == [i \in 0..(n - 1) |-> i]

\* a reshape in Fortran (column-major) order
ReshapeColumnMajor(flat, s) ==
    [idx \in IndexSet(s) |-> flat[idx[1] + s[1] * (idx[2] + s[2] * idx[3])]]

\* ndarray.reshape(s): C (row-major) order
Reshape(flat, s) ==
    [idx \in IndexSet(s) |-> flat[(idx[1] * s[2] + idx[2]) * s[3] + idx[3]]]

\* xr.DataArray(data, dims=...)
DataArray(values, s, d) == [dims |-> d, shape |-> s, values |-> values]

\* da + c on a uint32 array; the largest value here is 199, so nothing wraps
AddScalar(a, c) ==
    [a EXCEPT !.values = [idx \in DOMAIN a.values |-> a.values[idx] + c]]

\* xr.Dataset({"data": da})
Dataset(a) == [var |-> "data", dims |-> a.dims, shape |-> a.shape, values |-> a.values]

\* CF scale/offset encoding on write: stored = (value - add_offset) / scale_factor
CFEncode(v, enc) == (v - enc.add_offset) * enc.scale_den

\* CF scale/offset decoding on read: value = stored * scale_factor + add_offset
CFDecode(s, enc) == (s \div enc.scale_den) + enc.add_offset

\* Dataset.to_netcdf(path, encoding=encoding): the content of the written file
ToNetcdf(ds, enc) ==
    [kind |-> "netcdf", var |-> ds.var, dims |-> ds.dims, shape |-> ds.shape,
     chunks |-> enc.chunksizes, shuffle |-> enc.shuffle, zlib |-> enc.zlib,
     scale_den |-> enc.scale_den, add_offset |-> enc.add_offset,
     stored |-> [idx \in DOMAIN ds.values |-> CFEncode(ds.values[idx], enc)]]

\* The decoded values of a NetCDF file's variable
Decoded(f) ==
    [idx \in DOMAIN f.stored |->
        CFDecode(f.stored[idx], [scale_den |-> f.scale_den, add_offset |-> f.add_offset])]

(***************************************************************************)
(* Generator: one action per statement group of generate_netcdf.py         *)
(***************************************************************************)
GenData ==
    /\ pcG = "data"
    /\ da' = DataArray(Reshape(Arange(Prod(shape)), shape), shape, dims)
    /\ pcG' = "write0"
    /\ UNCHANGED <<files, store, pcC, vds, combined, session, err, other, atStart>>

GenWrite0 ==
    /\ pcG = "write0"
    /\ files' = [files EXCEPT ![Path0] = ToNetcdf(Dataset(da), encoding)]
    /\ pcG' = "write1"
    /\ UNCHANGED <<store, da, pcC, vds, combined, session, err, other, atStart>>

GenWrite1 ==
    /\ pcG = "write1"
    /\ files' = [files EXCEPT ![Path1] = ToNetcdf(Dataset(AddScalar(da, Offset)), encoding)]
    /\ pcG' = "done"
    /\ UNCHANGED <<store, da, pcC, vds, combined, session, err, other, atStart>>

\* the script is invoked again
GenRerun ==
    /\ pcG = "done"
    /\ pcG' = "data"
    /\ da' = None
    /\ UNCHANGED <<files, store, pcC, vds, combined, session, err, other, atStart>>

(***************************************************************************)
(* Combiner: virtualizarr_netcdf.py                                        *)
(***************************************************************************)
CeilDiv(a, b) == (a + b - 1) \div b

\* the chunk grid of an array of shape s stored in chunks of shape c
ChunkGrid(s, c) ==
    IndexSet(<<CeilDiv(s[1], c[1]), CeilDiv(s[2], c[2]), CeilDiv(s[3], c[3])>>)

\* open_virtual_dataset(path): the file's metadata and one reference per
\* stored chunk (the file and the chunk's place in it); no chunk bytes
open_virtual_dataset(path, f) ==
    [kind |-> "vds", var |-> f.var, dims |-> f.dims, shape |-> f.shape,
     chunks |-> f.chunks, shuffle |-> f.shuffle, zlib |-> f.zlib,
     scale_den |-> f.scale_den, add_offset |-> f.add_offset,
     refs |-> [c \in ChunkGrid(f.shape, f.chunks) |-> [path |-> path, chunk |-> c]]]

\* whether two virtual datasets can be concatenated along dimension 1 ("z")
Concatenable(a, b) ==
    /\ a.var = b.var
    /\ a.dims = b.dims
    /\ a.shape[2] = b.shape[2]
    /\ a.shape[3] = b.shape[3]
    /\ a.chunks = b.chunks

\* a concatenation that puts the second dataset first
concatReversed(a, b) ==
    LET nb == CeilDiv(b.shape[1], b.chunks[1])
        s == <<a.shape[1] + b.shape[1], a.shape[2], a.shape[3]>>
    IN  [a EXCEPT
            !.shape = s,
            !.refs = [c \in ChunkGrid(s, a.chunks) |->
                        IF c[1] < nb THEN b.refs[c]
                        ELSE a.refs[<<c[1] - nb, c[2], c[3]>>]]]

\* xr.concat([a, b], dim='z', coords='minimal', compat='override'); the
\* datasets carry no coordinate variables, so only the data variable is joined
concat(a, b) ==
    LET na == CeilDiv(a.shape[1], a.chunks[1])
        s == <<a.shape[1] + b.shape[1], a.shape[2], a.shape[3]>>
    IN  [a EXCEPT
            !.shape = s,
            !.refs = [c \in ChunkGrid(s, a.chunks) |->
                        IF c[1] < na THEN a.refs[c]
                        ELSE b.refs[<<c[1] - na, c[2], c[3]>>]]]

Absent == [kind |-> "absent"]
EmptyDir == [kind |-> "dir", entries |-> {}]

\* the snapshot Repository.create writes on branch "main"
RootSnapshot ==
    [message |-> "Repository initialized", by |-> "create", parent |-> 0,
     contents |-> None]

\* icechunk.local_filesystem_storage(path): the directory is made when missing
local_filesystem_storage(st) ==
    CASE st.kind = "absent" -> [ok |-> TRUE, store |-> EmptyDir]
      [] st.kind = "file" -> [ok |-> FALSE, store |-> st]
      [] OTHER -> [ok |-> TRUE, store |-> st]

\* a create that opens the repository already at the location (open_or_create)
RepositoryOpenOrCreate(st) ==
    IF st = EmptyDir
    THEN [ok |-> TRUE, store |-> [kind |-> "repo", main |-> <<RootSnapshot>>]]
    ELSE IF st.kind = "repo" THEN [ok |-> TRUE, store |-> st]
    ELSE [ok |-> FALSE, store |-> st]

\* a create that initializes the location whatever it holds
RepositoryCreateOver(st) ==
    [ok |-> TRUE, store |-> [kind |-> "repo", main |-> <<RootSnapshot>>]]

\* icechunk.Repository.create(storage): only on a location that holds nothing
RepositoryCreate(st) ==
    IF st = EmptyDir
    THEN [ok |-> TRUE, store |-> [kind |-> "repo", main |-> <<RootSnapshot>>]]
    ELSE [ok |-> FALSE, store |-> st]

\* repo.writable_session(branch): a session based on the branch tip
writable_session(st) ==
    [kind |-> "session", status |-> "writable", base |-> Len(st.main),
     staged |-> None]

\* a write that copies every referenced chunk into the store
to_icechunkCopying(vd) ==
    [kind |-> "dataset", var |-> vd.var, dims |-> vd.dims, shape |-> vd.shape,
     chunks |-> vd.chunks, shuffle |-> vd.shuffle, zlib |-> vd.zlib,
     scale_den |-> vd.scale_den, add_offset |-> vd.add_offset,
     virtual |-> vd.refs, native |-> DOMAIN vd.refs]

\* combined_vds.virtualize.to_icechunk(session.store): array metadata and
\* virtual chunk references; no chunk is written into the store itself
to_icechunk(vd) ==
    [kind |-> "dataset", var |-> vd.var, dims |-> vd.dims, shape |-> vd.shape,
     chunks |-> vd.chunks, shuffle |-> vd.shuffle, zlib |-> vd.zlib,
     scale_den |-> vd.scale_den, add_offset |-> vd.add_offset,
     virtual |-> vd.refs, native |-> {}]

\* a commit that does not compare the branch tip with the session's base and
\* puts its snapshot right after the base
commitForced(st, sess, message, who) ==
    [ok |-> TRUE,
     store |-> [st EXCEPT !.main =
                   Append(SubSeq(@, 1, sess.base),
                          [message |-> message, by |-> who,
                           parent |-> sess.base, contents |-> sess.staged])]]

\* session.commit(message): publishes the staged changes as a new snapshot on
\* the branch if the branch tip is still the session's base
commit(st, sess, message, who) ==
    IF Len(st.main) = sess.base
    THEN [ok |-> TRUE,
          store |-> [st EXCEPT !.main =
                        Append(@, [message |-> message, by |-> who,
                                   parent |-> sess.base, contents |-> sess.staged])]]
    ELSE [ok |-> FALSE, store |-> st]

NoErr == [kind |-> "none"]
Raised(at, why) == [kind |-> "error", at |-> at, why |-> why]

\* an uncaught exception ends the script
Abort(at, why) ==
    /\ pcC' = "failed"
    /\ err' = Raised(at, why)

Open0 ==
    /\ pcC = "open0"
    /\ IF files[Path0].kind = "netcdf"
       THEN /\ vds' = <<open_virtual_dataset(Path0, files[Path0])>>
            /\ pcC' = "open1"
            /\ err' = err
       ELSE /\ Abort("open_virtual_dataset", files[Path0].kind)
            /\ vds' = vds
    /\ UNCHANGED <<files, store, pcG, da, combined, session, other, atStart>>

Open1 ==
    /\ pcC = "open1"
    /\ IF files[Path1].kind = "netcdf"
       THEN /\ vds' = Append(vds, open_virtual_dataset(Path1, files[Path1]))
            /\ pcC' = "concat"
            /\ err' = err
       ELSE /\ Abort("open_virtual_dataset", files[Path1].kind)
            /\ vds' = vds
    /\ UNCHANGED <<files, store, pcG, da, combined, session, other, atStart>>

\* the storage location is prepared before the inputs are concatenated
ConcatAfterStorage ==
    /\ pcC = "concat"
    /\ store' = local_filesystem_storage(store).store
    /\ IF Concatenable(vds[1], vds[2])
       THEN /\ combined' = concat(vds[1], vds[2])
            /\ pcC' = "storage"
            /\ err' = err
       ELSE /\ Abort("concat", "mismatch")
            /\ combined' = combined
    /\ UNCHANGED <<files, pcG, da, vds, session, other, atStart>>

Concat ==
    /\ pcC = "concat"
    /\ IF Concatenable(vds[1], vds[2])
       THEN /\ combined' = concat(vds[1], vds[2])
            /\ pcC' = "storage"
            /\ err' = err
       ELSE /\ Abort("concat", "mismatch")
            /\ combined' = combined
    /\ UNCHANGED <<files, store, pcG, da, vds, session, other, atStart>>

Storage ==
    /\ pcC = "storage"
    /\ LET r == local_filesystem_storage(store)
       IN  IF r.ok
           THEN /\ store' = r.store
                /\ pcC' = "create"
                /\ err' = err
           ELSE /\ Abort("local_filesystem_storage", "not a directory")
                /\ store' = store
    /\ UNCHANGED <<files, pcG, da, vds, combined, session, other, atStart>>

Create ==
    /\ pcC = "create"
    /\ LET r == RepositoryCreate(store)
       IN  IF r.ok
           THEN /\ store' = r.store
                /\ pcC' = "session"
                /\ err' = err
           ELSE /\ Abort("Repository.create", "not empty")
                /\ store' = store
    /\ UNCHANGED <<files, pcG, da, vds, combined, session, other, atStart>>

WritableSession ==
    /\ pcC = "session"
    /\ session' = writable_session(store)
    /\ pcC' = "write"
    /\ UNCHANGED <<files, store, pcG, da, vds, combined, err, other, atStart>>

\* the library call may raise (an I/O error while writing)
Write ==
    /\ pcC = "write"
    /\ \E ok \in BOOLEAN :
        IF ok /\ session.status = "writable"
        THEN /\ session' = [session EXCEPT !.staged = to_icechunk(combined)]
             /\ pcC' = "commit"
             /\ err' = err
        ELSE /\ Abort("to_icechunk", "io")
             /\ session' = session
    /\ UNCHANGED <<files, store, pcG, da, vds, combined, other, atStart>>

\* a commit whose snapshot is published although the call raises
CommitPartial ==
    /\ pcC = "commit"
    /\ \E ok \in BOOLEAN :
        LET r == commit(store, session, "Initial commit", "combiner")
        IN  IF ok /\ r.ok
            THEN /\ store' = r.store
                 /\ session' = [session EXCEPT !.status = "committed", !.staged = None]
                 /\ pcC' = "done"
                 /\ err' = err
            ELSE /\ Abort("commit", IF r.ok THEN "io" ELSE "conflict")
                 /\ store' = r.store
                 /\ session' = session
    /\ UNCHANGED <<files, pcG, da, vds, combined, other, atStart>>

\* a commit that leaves the session writable
CommitStaysWritable ==
    /\ pcC = "commit"
    /\ \E ok \in BOOLEAN :
        LET r == commit(store, session, "Initial commit", "combiner")
        IN  IF ok /\ r.ok
            THEN /\ store' = r.store
                 /\ session' = session
                 /\ pcC' = "done"
                 /\ err' = err
            ELSE /\ Abort("commit", IF r.ok THEN "io" ELSE "conflict")
                 /\ store' = store
                 /\ session' = session
    /\ UNCHANGED <<files, pcG, da, vds, combined, other, atStart>>

Commit ==
    /\ pcC = "commit"
    /\ \E ok \in BOOLEAN :
        LET r == commit(store, session, "Initial commit", "combiner")
        IN  IF ok /\ r.ok
            THEN /\ store' = r.store
                 /\ session' = [session EXCEPT !.status = "committed", !.staged = None]
                 /\ pcC' = "done"
                 /\ err' = err
            ELSE /\ Abort("commit", IF r.ok THEN "io" ELSE "conflict")
                 /\ store' = store
                 /\ session' = session
    /\ UNCHANGED <<files, pcG, da, vds, combined, other, atStart>>

\* the script is invoked again: a new process, nothing kept in memory
Rerun ==
    /\ pcC \in {"done", "failed"}
    /\ pcC' = "open0"
    /\ vds' = <<>>
    /\ combined' = None
    /\ session' = None
    /\ err' = NoErr
    /\ atStart' = store
    /\ UNCHANGED <<files, store, pcG, da, other>>

(***************************************************************************)
(* A second writer on the same repository                                  *)
(***************************************************************************)
MaxOther == 2

OtherCommits(st) == Cardinality({i \in 1..Len(st.main) : st.main[i].by = "other"})

OtherSession ==
    /\ store.kind = "repo"
    /\ other = None
    /\ OtherCommits(store) < MaxOther
    /\ other' = writable_session(store)
    /\ UNCHANGED <<files, store, pcG, da, pcC, vds, combined, session, err, atStart>>

OtherCommit ==
    /\ other # None
    /\ store' = commit(store, other, "other", "other").store
    /\ other' = None
    /\ UNCHANGED <<files, pcG, da, pcC, vds, combined, session, err, atStart>>

(***************************************************************************)
(* Initial states and specifications                                       *)
(***************************************************************************)
\* what the Generator writes for a shape s and an offset off
GeneratedFile(s, off) ==
    ToNetcdf(Dataset(AddScalar(DataArray(Reshape(Arange(Prod(s)), s), s, dims), off)),
             encoding)

\* shapes of NetCDF files that may lie at the input paths before a run
InitShapes == {shape, <<1, 5, 10>>, <<2, 4, 10>>}

InitFiles ==
    {Absent, [kind |-> "garbage"]} \cup {GeneratedFile(s, 0) : s \in InitShapes}

\* what may lie at the repository path before the first run
InitStores ==
    {Absent, EmptyDir, [kind |-> "file", bytes |-> 1],
     [kind |-> "dir", entries |-> {"notes.txt"}]}

Init ==
    /\ files \in [{Path0, Path1} -> InitFiles]
    /\ store \in InitStores
    /\ pcG = "data"
    /\ da = None
    /\ pcC = "open0"
    /\ vds = <<>>
    /\ combined = None
    /\ session = None
    /\ err = NoErr
    /\ other = None
    /\ atStart = store

GeneratorNext == GenData \/ GenWrite0 \/ GenWrite1 \/ GenRerun

CombinerStep ==
    Open0 \/ Open1 \/ Concat \/ Storage \/ Create \/ WritableSession \/ Write \/ Commit

Next == GeneratorNext \/ CombinerStep \/ Rerun

\* the two scripts, the repository having a single writer
Spec == Init /\ [][Next]_vars

\* the Combiner runs to its end unless it fails
FairSpec == Spec /\ WF_vars(CombinerStep)

NextMW == CombinerStep \/ Rerun \/ OtherSession \/ OtherCommit

\* the Combiner and a second writer
SpecMW == Init /\ [][NextMW]_vars

(***************************************************************************)
(* Properties                                                              *)
(***************************************************************************)
\* the row-major flattened index of idx in shape (2, 5, 10)
FlatIndex(idx) == idx[1] * 50 + idx[2] * 10 + idx[3]

SameLayout(f, g) ==
    /\ f.var = g.var /\ f.dims = g.dims /\ f.shape = g.shape
    /\ f.chunks = g.chunks /\ f.shuffle = g.shuffle /\ f.zlib = g.zlib
    /\ f.scale_den = g.scale_den /\ f.add_offset = g.add_offset

GeneratorOutputOk ==
    pcG = "done" =>
        /\ files[Path0].kind = "netcdf"
        /\ files[Path1].kind = "netcdf"
        /\ files[Path0].var = "data"
        /\ files[Path0].dims = <<"z", "y", "x">>
        /\ files[Path0].shape = <<2, 5, 10>>
        /\ DOMAIN files[Path0].stored = IndexSet(<<2, 5, 10>>)
        /\ DOMAIN files[Path1].stored = IndexSet(<<2, 5, 10>>)
        /\ SameLayout(files[Path0], files[Path1])
        /\ \A idx \in IndexSet(<<2, 5, 10>>) :
            /\ Decoded(files[Path0])[idx] = FlatIndex(idx)
            /\ Decoded(files[Path1])[idx] = FlatIndex(idx) + 100
        /\ Decoded(files[Path0])[<<0, 0, 0>>] = 0
        /\ Decoded(files[Path0])[<<1, 4, 9>>] = 99

\* C4: when the Generator has finished, test0.nc holds the variable "data"
\* whose value at (i,j,k) is the row-major flattened index in shape (2,5,10)
\* (0 at (0,0,0), 99 at (1,4,9)), test1.nc holds the same plus 100, both with
\* the same shape, dimension names and storage encoding; and no Generator
\* step writes anything but these two files.
C4_GeneratorFiles ==
    /\ [](GeneratorOutputOk)
    /\ [][GeneratorNext => (store' = store /\ DOMAIN files' = {Path0, Path1})]_vars

\* C4 witness: the Generator has finished over a path that held no file
C4_Witness ==
    /\ pcG = "done"
    /\ files[Path1].kind = "netcdf"
    /\ Decoded(files[Path1])[<<1, 4, 9>>] = 199
    /\ pcC = "failed"
    /\ err.why = "absent"

ConcatOk ==
    combined # None =>
        LET a == vds[1]
            b == vds[2]
        IN  /\ combined.shape[1] = a.shape[1] + b.shape[1]
            /\ combined.shape[2] = a.shape[2] /\ combined.shape[2] = b.shape[2]
            /\ combined.shape[3] = a.shape[3] /\ combined.shape[3] = b.shape[3]
            /\ combined.dims = <<"z", "y", "x">>
            /\ DOMAIN combined.refs =
                 IndexSet(<<combined.shape[1], CeilDiv(combined.shape[2], 2),
                            CeilDiv(combined.shape[3], 2)>>)
            /\ \A c \in DOMAIN combined.refs :
                 IF c[1] < a.shape[1]
                 THEN combined.refs[c] = [path |-> Path0, chunk |-> c]
                 ELSE combined.refs[c] =
                        [path |-> Path1, chunk |-> <<c[1] - a.shape[1], c[2], c[3]>>]
            /\ (a.shape = <<2, 5, 10>> /\ b.shape = <<2, 5, 10>>)
                 => combined.shape = <<4, 5, 10>>

\* C3: the combined virtual dataset's extent along "z" is the sum of the two
\* inputs' "z" extents (2 + 2 = 4 for the generated files), its "y" and "x"
\* extents are those of both inputs, and along "z" the chunks of test0.nc come
\* first and those of test1.nc after them.
C3_Concat == ConcatOk

\* C3 witness: the two generated files have been concatenated
C3_Witness ==
    /\ combined # None
    /\ vds[1].shape = <<2, 5, 10>>
    /\ vds[2].shape = <<2, 5, 10>>
    /\ combined.shape = <<4, 5, 10>>

IsRepo(st) == st.kind = "repo"

\* the path holds something that is not an icechunk repository
Foreign(st) == st.kind = "file" \/ (st.kind = "dir" /\ st.entries # {})

Tip(st) == st.main[Len(st.main)]

CommitsBy(st, who) ==
    IF IsRepo(st) THEN {i \in 1..Len(st.main) : st.main[i].by = who} ELSE {}

IsPrefix(p, q) == Len(p) <= Len(q) /\ SubSeq(q, 1, Len(p)) = p

\* a step of the running Combiner
CombinerMoves == pcC' # pcC /\ pcC \notin {"done", "failed"}

\* C1 (as stated): a run that meets a repository left by an earlier run, or
\* nothing, at the path does not fail on acquiring the store.
C1_Original ==
    (pcC = "failed" /\ err.at \in {"local_filesystem_storage", "Repository.create"})
        => ~(atStart.kind = "absent" \/ IsRepo(atStart))

\* C1 (amended): the Combiner creates the repository and never opens one.
\* From an absent path (or an empty directory) the run gets a writable session
\* on "main" based on the new repository's tip; when the path already holds a
\* repository, the run fails at Repository.create and leaves it as it was.
C1_CreateOnly ==
    /\ [][(CombinerMoves /\ pcC = "storage" /\ store.kind \in {"absent", "repo"})
            => pcC' = "create"]_vars
    /\ [][(CombinerMoves /\ pcC = "create")
            => IF store = EmptyDir
               THEN pcC' = "session" /\ IsRepo(store')
               ELSE pcC' = "failed" /\ err'.at = "Repository.create"
                    /\ store' = store]_vars
    /\ [][(CombinerMoves /\ pcC = "session")
            => /\ session'.status = "writable"
               /\ session'.base = Len(store.main)
               /\ pcC' = "write"]_vars
    /\ [](IsRepo(atStart) =>
            (session = None /\ pcC \notin {"session", "write", "commit", "done"}))

\* C1 witness: a second run has met the first run's repository and failed
C1_Witness ==
    /\ pcC = "failed"
    /\ err.at = "Repository.create"
    /\ IsRepo(atStart)
    /\ Len(atStart.main) = 2
    /\ store = atStart

\* C2: when a run that found no repository ends successfully, "main" holds the
\* root snapshot of the new repository and exactly one commit made by the run,
\* with message "Initial commit"; its snapshot is the combined virtual dataset,
\* stored as references to chunks of the two input files and no chunk bytes.
C2_InitialCommit ==
    pcC = "done" =>
        /\ atStart \in {Absent, EmptyDir}
        /\ IsRepo(store)
        /\ Len(store.main) = 2
        /\ store.main[1] = RootSnapshot
        /\ CommitsBy(store, "combiner") = {2}
        /\ Tip(store).message = "Initial commit"
        /\ Tip(store).contents.kind = "dataset"
        /\ Tip(store).contents.var = "data"
        /\ Tip(store).contents.shape = combined.shape
        /\ Tip(store).contents.virtual = combined.refs
        /\ Tip(store).contents.native = {}
        /\ \A c \in DOMAIN Tip(store).contents.virtual :
             Tip(store).contents.virtual[c].path \in {Path0, Path1}

\* C2 witness: a successful run over the two generated files
C2_Witness ==
    /\ pcC = "done"
    /\ atStart = Absent
    /\ combined.shape = <<4, 5, 10>>
    /\ Tip(store).message = "Initial commit"

\* C5: once session.commit has returned, the latest snapshot of "main" has the
\* shape, variable name and chunk references of the combined virtual dataset
\* that was written to the session, and every later state of the repository
\* still has that snapshot, unchanged, as the latest one of "main".
C5_Durable ==
    /\ [](pcC = "done" =>
            /\ IsRepo(store)
            /\ Tip(store).by = "combiner"
            /\ Tip(store).contents.shape = combined.shape
            /\ Tip(store).contents.var = combined.var
            /\ Tip(store).contents.dims = combined.dims
            /\ Tip(store).contents.virtual = combined.refs)
    /\ [][(CommitsBy(store, "combiner") # {})
            => (IsRepo(store') /\ store'.main = store.main)]_vars

\* C5 witness: a later run is under way and the repository still ends with
\* the snapshot committed by the earlier run
C5_Witness ==
    /\ pcC = "open1"
    /\ IsRepo(store)
    /\ Tip(store).by = "combiner"
    /\ Tip(store).contents.shape = <<4, 5, 10>>

C7_Original == pcC = "failed" => store = atStart

\* C7 (amended): a run that stops before commit returns publishes nothing of
\* its session: "main" gets no commit from the run.  What the run leaves at
\* the path is what it found, or the directory made by
\* local_filesystem_storage, or the repository made by Repository.create with
\* only its root snapshot on "main".
C7_NoCommitVisible ==
    pcC = "failed" =>
        /\ CommitsBy(store, "combiner") = CommitsBy(atStart, "combiner")
        /\ \/ store = atStart
           \/ atStart = Absent /\ store = EmptyDir
           \/ /\ atStart \in {Absent, EmptyDir}
              /\ store = [kind |-> "repo", main |-> <<RootSnapshot>>]

\* C7 witness: to_icechunk raised in a run that had created the repository
C7_Witness ==
    /\ pcC = "failed"
    /\ err.at = "to_icechunk"
    /\ atStart = Absent
    /\ store = [kind |-> "repo", main |-> <<RootSnapshot>>]

\* C8: when the tip of "main" is no longer the session's base at the
\* Combiner's commit, the commit fails with a conflict and changes nothing;
\* no step removes or replaces a snapshot of "main"; and after a failure the
\* run does nothing more.
C8_Conflict ==
    /\ [][(CombinerMoves /\ pcC = "commit" /\ Len(store.main) # session.base)
            => /\ pcC' = "failed"
               /\ err' = Raised("commit", "conflict")
               /\ store' = store]_vars
    /\ [][IsRepo(store) => (IsRepo(store') /\ IsPrefix(store.main, store'.main))]_vars
    /\ [][pcC = "failed" =>
            (pcC' = "open0" \/ (pcC' = "failed" /\ session' = session /\ err' = err))]_vars
    /\ []((pcC = "failed" /\ err.at = "commit") => CommitsBy(store, "combiner") = {})

\* C8 witness: the Combiner's commit met another writer's commit and failed
C8_Witness ==
    /\ pcC = "failed"
    /\ err = Raised("commit", "conflict")
    /\ CommitsBy(store, "other") # {}
    /\ Len(store.main) > session.base

SessionTransitions ==
    /\ (session = None /\ session' # None)
         => (pcC = "session" /\ session'.status = "writable" /\ session'.staged = None)
    /\ (session # None /\ session' # session)
         => \/ /\ pcC = "write" /\ session.status = "writable"
               /\ session.staged = None
               /\ session' = [session EXCEPT !.staged = to_icechunk(combined)]
            \/ /\ pcC = "commit" /\ session.status = "writable"
               /\ session.staged # None
               /\ session'.status = "committed"
               /\ Len(store'.main) = Len(store.main) + 1
            \/ /\ pcC \in {"done", "failed"} /\ pcC' = "open0" /\ session' = None
    /\ (session # None /\ session.status = "committed")
         => (store' = store /\ pcC = "done" /\ pcC' \in {"done", "open0"})
    /\ (CombinerMoves /\ store' # store /\ pcC \notin {"storage", "create"})
         => (pcC = "commit" /\ session'.status = "committed")

\* C9: the session is made writable by writable_session, the references are
\* written into it only while it is writable, it is committed once and after
\* the write, after the commit the run neither writes nor commits again, and
\* a run that has not failed gets to the commit.
C9_Lifecycle ==
    /\ [][SessionTransitions]_vars
    /\ [](pcC = "done" <=> (session # None /\ session.status = "committed"))
    /\ (pcC \notin {"done", "failed"}) ~> (pcC \in {"done", "failed"})

\* C9 witness: the session has been committed
C9_Witness ==
    /\ session # None
    /\ session.status = "committed"
    /\ pcC = "done"

\* C10: no step changes the repository path while the Combiner is opening or
\* concatenating its inputs or after it has failed; a failing open or
\* concatenation ends the run at that step, with no session; and the storage
\* is reached only with both inputs opened and concatenated.
C10_FailFast ==
    /\ [][(pcC \in {"open0", "open1", "concat", "failed"}) => store' = store]_vars
    /\ [][(CombinerMoves /\ pcC = "open0" /\ files[Path0].kind # "netcdf")
            => pcC' = "failed"]_vars
    /\ [][(CombinerMoves /\ pcC = "open1" /\ files[Path1].kind # "netcdf")
            => pcC' = "failed"]_vars
    /\ [][(CombinerMoves /\ pcC = "concat" /\ vds[1].shape[2] # vds[2].shape[2])
            => pcC' = "failed"]_vars
    /\ [][pcC = "failed" => pcC' \in {"failed", "open0"}]_vars
    /\ []((pcC = "failed" /\ err.at \in {"open_virtual_dataset", "concat"})
            => (store = atStart /\ session = None))
    /\ [](pcC \in {"storage", "create", "session", "write", "commit", "done"}
            => (Len(vds) = 2 /\ combined # None))

\* C10 witness: the concatenation failed on inputs of different "y" extent
C10_Witness ==
    /\ pcC = "failed"
    /\ err.at = "concat"
    /\ Len(vds) = 2
    /\ vds[1].shape[2] # vds[2].shape[2]
    /\ store = atStart

====
